---- MODULE Spec2Model ----
(***************************************************************************)
(* Spectral ABF (pysages/methods/spectral_abf.py): the per-step update of  *)
(* SpectralABFState, the gated refit of the basis-function coefficients,   *)
(* the force estimator and the post-run analysis.                          *)
(*                                                                         *)
(* Conventions of the model                                                *)
(*  - one collective variable (grid.shape.size = 1); arrays over the grid  *)
(*    are functions on 0 .. shape-1, the trailing CV axis of Fsum (size 1) *)
(*    is dropped;                                                          *)
(*  - real numbers are fixed-point integers; a quotient is rounded toward  *)
(*    zero (Div);                                                          *)
(*  - JAX indexing with a traced index that is out of range: an update     *)
(*    x.at[i].add(v) is dropped, a read x[i] is clamped to the last cell   *)
(*    (jax.numpy.ndarray.at, default mode); no exception is raised;        *)
(*  - hist is uint32 in the code; the counts explored stay far below 2^32. *)
(***************************************************************************)
EXTENDS Integers, Sequences, FiniteSets, TLC

VARIABLES
    method,     \* the immutable configuration (SpectralABF instance + snapshot.dt)
    state,      \* the SpectralABFState of the replica
    data,       \* the snapshot data last handed to initialize / update
    pc,         \* "running" while the host calls update, "analyzed" after analyze
    ana,        \* the dictionary returned by analyze (NoResult before)
    finals,     \* the final states of the replicas that have finished (result.states)
    updates,    \* history: number of update calls so far
    visits,     \* history: number of update calls whose bin index was inside the grid
    refits,     \* history: incoming nstep of every update that ran _fit_forces
    taken,      \* history: what the last update did (index, branches, addend)
    wp_log      \* history: the momentum projection Wp computed by each update, in order

vars == <<method, state, data, pc, ana, finals, updates, visits, refits, taken, wp_log>>

----------------------------------------------------------------------------
(* Bounds of the model *)

\* number of update calls explored
MaxSteps == 3

\* number of bins of the grid (grid.shape)
Bins == 2

----------------------------------------------------------------------------
(* Arithmetic helpers *)

Max(a, b) == IF a >= b THEN a ELSE b

\* a / b on fixed-point values, b > 0, rounded toward zero
Div(a, b) == IF a >= 0 THEN a \div b ELSE -((-a) \div b)

Dot(u, v) == LET n == Len(u)
                 S[i \in 0..n] == IF i = 0 THEN 0 ELSE S[i-1] + u[i] * v[i]
             IN S[n]

Zeros(shape) == [b \in 0..(shape-1) |-> 0]

----------------------------------------------------------------------------
(* Configuration *)

NoRestraints == [configured |-> FALSE, lower |-> 0, upper |-> 0, kl |-> 0, kh |-> 0]

\* restraints = None, restraints on the grid's own bounds, restraints strictly inside
RestraintChoices(shape) ==
    { NoRestraints,
      [configured |-> TRUE, lower |-> 0, upper |-> shape, kl |-> 1, kh |-> 2],
      [configured |-> TRUE, lower |-> 1, upper |-> shape - 1, kl |-> 1, kh |-> 2] }

\* snapshot.dt as a rational
SnapshotDt == [num |-> 1, den |-> 2]

Methods ==
    [ shape : {Bins}, N : {2}, fit_freq : {1, 2}, fit_threshold : {0, 1},
      restraints : RestraintChoices(Bins), dt : {SnapshotDt} ]

\* what the host hands to update: the CV value and Jacobian of the snapshot, its momenta
Jp == { [Jxi |-> <<1, 0>>, momenta |-> <<2, 0>>],
        [Jxi |-> <<0, 2>>, momenta |-> <<1, -2>>] }

DataSet(shape) ==
    { [xi |-> x, Jxi |-> jp.Jxi, momenta |-> jp.momenta] : x \in (-1)..(shape + 1), jp \in Jp }

----------------------------------------------------------------------------
(* External collaborators (pysages.approxfun, pysages.grids, pysages.colvars, *)
(* pysages.methods.restraints): modelled from their documented contracts      *)

\* cv(data): the collective variable and its Jacobian
cv(d) == <<d.xi, d.Jxi>>

\* build_indexer(grid): bins of unit width starting at 0; a value outside the grid
\* maps to the out-of-bounds index grid.shape
get_grid_index(m, xi) == IF 0 <= xi /\ xi < m.shape THEN xi ELSE m.shape

\* build_fitter(model): the coefficients are determined by the fitted field
fit(field) == [coefficients |-> field]

\* build_grad_evaluator(model): gradient of the expansion at xi (nearest grid node)
get_grad(m, fun, xi) ==
    fun.coefficients[IF xi < 0 THEN 0 ELSE IF xi >= m.shape THEN m.shape - 1 ELSE xi]

\* build_evaluator(model): the expansion at mesh node x (antiderivative of the gradient)
evaluate(fun, x) ==
    LET S[i \in 0..x] == IF i = 0 THEN 0 ELSE S[i-1] + fun.coefficients[i-1]
    IN S[x]

\* apply_restraints(lo, hi, kl, kh, xi): harmonic pseudo-force outside [lo, hi]
apply_restraints(lo, hi, kl, kh, xi) ==
    IF xi < lo THEN kl * (lo - xi) ELSE IF xi > hi THEN kh * (hi - xi) ELSE 0

\* jax.scipy.linalg.solve(A, b) for the 1x1 system A * Wp = b
solve(A, b) == Div(b, A)

----------------------------------------------------------------------------
(* JAX array indexing with a traced unsigned index *)

\* (mutant) an out-of-range update lands in the last cell instead of being dropped
at_add_clip(x, i, v) ==
    LET j == IF i \in DOMAIN x THEN i ELSE Cardinality(DOMAIN x) - 1
    IN [x EXCEPT ![j] = @ + v]

\* x.at[i].add(v): an out-of-range update is dropped
at_add(x, i, v) == IF i \in DOMAIN x THEN [x EXCEPT ![i] = @ + v] ELSE x

\* x[i]: an out-of-range read is clamped to the last cell
getitem(x, i, shape) == x[IF i >= shape THEN shape - 1 ELSE i]

----------------------------------------------------------------------------
(* _spectral_abf: initialize and update *)

\* (mutant) the step counter starts at 0
initialize_nstep0(m, d) ==
    [ xi    |-> cv(d)[1],
      bias  |-> [i \in 1..Len(d.Jxi) |-> 0],
      hist  |-> Zeros(m.shape),
      Fsum  |-> Zeros(m.shape),
      force |-> 0,
      Wp    |-> 0,
      Wp_   |-> 0,
      fun   |-> fit(Zeros(m.shape)),
      nstep |-> 0 ]

initialize(m, d) ==
    [ xi    |-> cv(d)[1],
      bias  |-> [i \in 1..Len(d.Jxi) |-> 0],
      hist  |-> Zeros(m.shape),
      Fsum  |-> Zeros(m.shape),
      force |-> 0,
      Wp    |-> 0,
      Wp_   |-> 0,
      fun   |-> fit(Zeros(m.shape)),
      nstep |-> 1 ]

\* (mutant) the fitting regime starts at the threshold itself
in_fitting_regime_ge(m, nstep) == nstep >= m.fit_threshold

in_fitting_regime(m, nstep) == nstep > m.fit_threshold

\* (mutant) the refit is gated on nstep mod fit_freq == 0
in_fitting_step_mod0(m, nstep) == in_fitting_regime(m, nstep) /\ (nstep % m.fit_freq = 0)

in_fitting_step(m, nstep) == in_fitting_regime(m, nstep) /\ (nstep % m.fit_freq = 1)

\* (mutant) the cumulative force is fitted without dividing by the visit counts
_fit_forces_raw(s) == fit(s.Fsum)

\* build_free_energy_fitter
_fit_forces(s) ==
    fit([b \in DOMAIN s.Fsum |-> Div(s.Fsum[b], Max(s.hist[b], 1))])

skip_fitting(s) == s.fun

fit_forces(s, gate) == IF gate THEN _fit_forces(s) ELSE skip_fitting(s)

\* Wp = solve(Jxi @ Jxi.T, Jxi @ p)
momentum_projection(d) == solve(Dot(cv(d)[2], cv(d)[2]), Dot(cv(d)[2], d.momenta))

\* (mutant) the two history slots are swapped in the finite difference
dWp_dt_swapped(m, s, Wp) == Div((3 * Wp - 4 * s.Wp_ + s.Wp) * m.dt.den, 2 * m.dt.num)

\* second order backward finite difference
\* (1.5 * Wp - 2.0 * state.Wp + 0.5 * state.Wp_) / dt
dWp_dt(m, s, Wp) == Div((3 * Wp - 4 * s.Wp + s.Wp_) * m.dt.den, 2 * m.dt.num)

\* (mutant) the addend leaves out the previous force estimate
accumulate_no_force(s, I_xi, dW) ==
    [ hist |-> at_add(s.hist, I_xi, 1),
      Fsum |-> at_add(s.Fsum, I_xi, dW) ]

\* (mutant) the force lands in the last bin when the index is out of range
accumulate_clip_Fsum(s, I_xi, dW) ==
    [ hist |-> at_add(s.hist, I_xi, 1),
      Fsum |-> at_add_clip(s.Fsum, I_xi, dW + s.force) ]

\* hist = state.hist.at[I_xi].add(1); Fsum = state.Fsum.at[I_xi].add(dWp_dt + state.force)
accumulate(s, I_xi, dW) ==
    [ hist |-> at_add(s.hist, I_xi, 1),
      Fsum |-> at_add(s.Fsum, I_xi, dW + s.force) ]

\* the PartialSpectralABFState handed to the estimator
partial_state(m, s, d) ==
    LET acc == accumulate(s, get_grid_index(m, cv(d)[1]), dWp_dt(m, s, momentum_projection(d)))
    IN [ xi   |-> cv(d)[1],
         hist |-> acc.hist,
         Fsum |-> acc.Fsum,
         ind  |-> get_grid_index(m, cv(d)[1]),
         fun  |-> fit_forces(s, in_fitting_step(m, s.nstep)),
         pred |-> in_fitting_regime(m, s.nstep) ]

----------------------------------------------------------------------------
(* build_force_estimator *)

average_force(m, ps) ==
    Div(getitem(ps.Fsum, ps.ind, m.shape), Max(getitem(ps.hist, ps.ind, m.shape), m.N))

interpolate_force(m, ps) == get_grad(m, ps.fun, ps.xi)

restraints_force(m, ps) ==
    apply_restraints(m.restraints.lower, m.restraints.upper,
                     m.restraints.kl, m.restraints.kh, ps.xi)

\* (mutant) the regime flag is tested before the out-of-bounds condition
estimate_branch_regime_first(m, ps) ==
    IF ps.pred THEN "interpolate"
    ELSE IF m.restraints.configured /\ ps.ind = m.shape THEN "restraints"
    ELSE "average"

\* which branch the nested cond() calls select
estimate_branch(m, ps) ==
    IF m.restraints.configured /\ ps.ind = m.shape THEN "restraints"
    ELSE IF ps.pred THEN "interpolate"
    ELSE "average"

estimate_force(m, ps) ==
    CASE estimate_branch(m, ps) = "restraints"  -> restraints_force(m, ps)
      [] estimate_branch(m, ps) = "interpolate" -> interpolate_force(m, ps)
      [] OTHER                                  -> average_force(m, ps)

update(m, s, d) ==
    LET ps    == partial_state(m, s, d)
        force == estimate_force(m, ps)
        Jxi   == cv(d)[2]
    IN [ xi    |-> ps.xi,
         bias  |-> [i \in 1..Len(Jxi) |-> -(Jxi[i] * force)],
         hist  |-> ps.hist,
         Fsum  |-> ps.Fsum,
         force |-> force,
         Wp    |-> momentum_projection(d),
         Wp_   |-> s.Wp,
         fun   |-> ps.fun,
         nstep |-> s.nstep + 1 ]

----------------------------------------------------------------------------
(* analyze *)

average_forces(hist, Fsum) == [b \in DOMAIN Fsum |-> Div(Fsum[b], Max(hist[b], 1))]

build_fes_fn(fun) == [closure_over |-> fun]

\* (mutant) the single-replica result is left wrapped
first_or_all_wrapped(seq) == seq

first_or_all(seq) == IF Len(seq) = 1 THEN seq[1] ELSE seq

analyze(m, states) ==
    LET each(f(_)) == [i \in 1..Len(states) |-> f(states[i])]
        hist_of(s) == s.hist
        mf_of(s)   == average_forces(s.hist, s.Fsum)
        fe_of(s)   == [x \in 0..(m.shape - 1) |-> evaluate(s.fun, x)]
        fun_of(s)  == s.fun
        fes_of(s)  == build_fes_fn(s.fun)
    IN [ histogram   |-> first_or_all(each(hist_of)),
         mean_force  |-> first_or_all(each(mf_of)),
         free_energy |-> first_or_all(each(fe_of)),
         mesh        |-> [x \in 0..(m.shape - 1) |-> x],
         fun         |-> first_or_all(each(fun_of)),
         fes_fn      |-> first_or_all(each(fes_of)) ]

NoResult == [histogram |-> <<>>]

----------------------------------------------------------------------------
(* The state machine: the host calls initialize once, update once per step, *)
(* and analyze after the last step                                          *)

NothingTaken == [ind |-> -1, branch |-> "none", fitted |-> FALSE, dW |-> 0, prev_force |-> 0]

InitWith(m) ==
    /\ method = m
    /\ data \in DataSet(m.shape)
    /\ state = initialize(m, data)
    /\ pc = "running"
    /\ ana = NoResult
    /\ finals = <<>>
    /\ updates = 0
    /\ visits = 0
    /\ refits = {}
    /\ taken = NothingTaken
    /\ wp_log = <<>>

Step(d) ==
    /\ pc = "running"
    /\ state' = update(method, state, d)
    /\ data' = d
    /\ updates' = updates + 1
    /\ visits' = IF get_grid_index(method, cv(d)[1]) < method.shape THEN visits + 1 ELSE visits
    /\ refits' = IF in_fitting_step(method, state.nstep) THEN refits \cup {state.nstep} ELSE refits
    /\ taken' = [ ind    |-> get_grid_index(method, cv(d)[1]),
                  branch |-> estimate_branch(method, partial_state(method, state, d)),
                  fitted |-> in_fitting_step(method, state.nstep),
                  dW     |-> dWp_dt(method, state, momentum_projection(d)),
                  prev_force |-> state.force ]
    /\ wp_log' = Append(wp_log, momentum_projection(d))
    /\ UNCHANGED <<method, pc, ana, finals>>

Update ==
    /\ updates < MaxSteps
    /\ \E d \in DataSet(method.shape) : Step(d)

Analyze ==
    /\ pc = "running"
    /\ pc' = "analyzed"
    /\ finals' = Append(finals, state)
    /\ ana' = analyze(method, finals')
    /\ UNCHANGED <<method, state, data, updates, visits, refits, taken, wp_log>>

Init == \E m \in Methods : InitWith(m)

Next == Update \/ Analyze

Spec == Init /\ [][Next]_vars

----------------------------------------------------------------------------
(* The scenario of the specification's section 8: a grid of 10 bins, N = 5,   *)
(* fit_freq = 2, fit_threshold = 0, six updates alternating bin 3 and bin 7   *)

Scenario == [bins |-> 10, N |-> 5, fit_freq |-> 2, fit_threshold |-> 0, steps |-> 6]

ScenarioMethods ==
    [ shape : {Scenario.bins}, N : {Scenario.N}, fit_freq : {Scenario.fit_freq},
      fit_threshold : {Scenario.fit_threshold},
      restraints : RestraintChoices(Scenario.bins), dt : {SnapshotDt} ]

\* the CV value of the k-th update (k = 0, 1, ...)
ScenarioXi(k) == IF k % 2 = 0 THEN 3 ELSE 7

InitScenario == \E m \in ScenarioMethods : InitWith(m)

UpdateScenario ==
    /\ updates < Scenario.steps
    /\ \E d \in DataSet(method.shape) : d.xi = ScenarioXi(updates) /\ Step(d)

NextScenario == UpdateScenario \/ Analyze

SpecScenario == InitScenario /\ [][NextScenario]_vars

----------------------------------------------------------------------------
(* Several replicas: each runs its own initialize / update loop on its own   *)
(* state; the final states are collected in order and analyzed together      *)

\* number of replicas of a run
MaxReplicas == 2

\* number of update calls of each replica
ReplicaSteps == 2

\* the snapshots fed to the replicas of this specification
ReplicaData(shape) == { d \in DataSet(shape) : d.xi \in {0, shape} /\ d.momenta = <<2, 0>> }

InitReplicas ==
    /\ \E m \in Methods : InitWith(m)
    /\ data \in ReplicaData(method.shape)

UpdateReplica ==
    /\ updates < ReplicaSteps
    /\ \E d \in ReplicaData(method.shape) : Step(d)

\* the running replica finishes and the next one starts from initialize()
NextReplica ==
    /\ pc = "running"
    /\ Len(finals) + 1 < MaxReplicas
    /\ finals' = Append(finals, state)
    /\ \E d \in ReplicaData(method.shape) :
          /\ data' = d
          /\ state' = initialize(method, d)
    /\ updates' = 0
    /\ visits' = 0
    /\ refits' = {}
    /\ taken' = NothingTaken
    /\ wp_log' = <<>>
    /\ UNCHANGED <<method, pc, ana>>

NextReplicas == UpdateReplica \/ NextReplica \/ Analyze

SpecReplicas == InitReplicas /\ [][NextReplicas]_vars

----------------------------------------------------------------------------
(* Properties *)

IsUpdate == updates' = updates + 1

InGrid(i) == i < method.shape

\* the sum of all cells of a grid array
SumCells(a, shape) ==
    LET S[i \in 0..shape] == IF i = 0 THEN 0 ELSE S[i-1] + a[i-1]
    IN S[shape]

\* C1 (as stated): after N updates the sum of all cells of hist equals N.
C1_SumHistEqualsUpdates == SumCells(state.hist, method.shape) = updates

\* C1 (amended): the sum of all cells of hist equals the number of updates whose
\* bin index lay inside the grid; an update with the out-of-bounds index adds nothing.
C1_SumHistEqualsVisits == SumCells(state.hist, method.shape) = visits

C1_Witness == updates = 3 /\ visits = 2 /\ taken.ind = method.shape

\* C2: in an update, fun is replaced by a new fit exactly when the incoming nstep
\* satisfies nstep > fit_threshold and nstep mod fit_freq = 1; otherwise it is carried over.
C2_FunChangesOnlyOnGatedSteps ==
    [][ IsUpdate =>
          IF state.nstep > method.fit_threshold /\ state.nstep % method.fit_freq = 1
          THEN state'.fun = _fit_forces(state)
          ELSE state'.fun = state.fun ]_vars

C2_Witness ==
    /\ taken.fitted
    /\ refits = {3}
    /\ state.fun # fit(Zeros(method.shape))

RestraintFormula(r, xi) ==
    IF xi < r.lower THEN r.kl * (r.lower - xi) ELSE r.kh * (r.upper - xi)

\* C3: with restraints configured, in any update where xi lies outside [lower, upper]
\* of the restraints, the new force equals the restraint formula.
C3_RestraintForceOutsideBox ==
    [][ ( /\ IsUpdate
          /\ method.restraints.configured
          /\ (state'.xi < method.restraints.lower \/ state'.xi > method.restraints.upper) )
        => state'.force = RestraintFormula(method.restraints, state'.xi) ]_vars

\* C4 (as stated): before fit_threshold the new force is always the discrete average
\* Fsum[bin] / max(hist[bin], N), whether or not restraints are configured.
C4_AverageBeforeThreshold ==
    [][ (IsUpdate /\ state.nstep <= method.fit_threshold)
        => /\ taken'.branch = "average"
           /\ state'.force =
                Div(getitem(state'.Fsum, taken'.ind, method.shape),
                    Max(getitem(state'.hist, taken'.ind, method.shape), method.N)) ]_vars

\* C4 (amended): before fit_threshold, in every update whose bin index lies inside the
\* grid, the new force is the discrete average Fsum[bin] / max(hist[bin], N).
C4_AverageBeforeThresholdInGrid ==
    [][ (IsUpdate /\ state.nstep <= method.fit_threshold /\ InGrid(taken'.ind))
        => /\ taken'.branch = "average"
           /\ state'.force =
                Div(state'.Fsum[taken'.ind], Max(state'.hist[taken'.ind], method.N)) ]_vars

C4_Witness ==
    /\ updates = 1
    /\ method.fit_threshold = 1
    /\ method.restraints.configured
    /\ taken.branch = "average"
    /\ state.force # 0

\* C5: the value added to Fsum at the resolved bin is dWp_dt plus the force of the
\* incoming state (with the out-of-bounds index there is no such bin and Fsum is left
\* as it was); the new bias is -Jxi^T times the newly estimated force.
C5_AddendUsesPreviousForce ==
    [][ IsUpdate
        => /\ InGrid(taken'.ind) =>
                state'.Fsum[taken'.ind] =
                  state.Fsum[taken'.ind]
                    + Div((3 * state'.Wp - 4 * state.Wp + state.Wp_) * method.dt.den,
                          2 * method.dt.num)
                    + state.force
           /\ ~InGrid(taken'.ind) => state'.Fsum = state.Fsum
           /\ state'.bias = [i \in 1..Len(data'.Jxi) |-> -(data'.Jxi[i] * state'.force)] ]_vars

C5_Witness ==
    /\ InGrid(taken.ind)
    /\ taken.prev_force # 0
    /\ taken.prev_force # state.force
    /\ state.force # 0

C7_FsumZeroWhereUnvisited ==
    /\ \A b \in DOMAIN state.hist :
         state.hist[b] = 0 =>
           state.Fsum[b] = 0 /\ average_forces(state.hist, state.Fsum)[b] = 0
    /\ (pc = "analyzed" /\ state.hist = Zeros(method.shape))
         => ana.histogram = Zeros(method.shape) /\ ana.mean_force = Zeros(method.shape)

C7_Witness ==
    /\ pc = "analyzed"
    /\ updates = 3
    /\ visits = 0
    /\ state.force # 0

\* C8: with no restraints configured and an index outside the grid, update fails:
\* no new state is produced.
C8_OutOfRangeWithoutRestraintsIsFatal ==
    [][ ( /\ ~method.restraints.configured
          /\ get_grid_index(method, data'.xi) = method.shape )
        => state' = state ]_vars

\* C9: in the scenario, after the six updates hist[3] = 3, hist[7] = 3, every other
\* cell is 0, and the refits happened at exactly the incoming steps 1, 3 and 5.
C9_Scenario ==
    updates = Scenario.steps =>
      /\ state.hist = [b \in 0..(Scenario.bins - 1) |-> IF b \in {3, 7} THEN 3 ELSE 0]
      /\ refits = {1, 3, 5}

C9_Witness == updates = Scenario.steps /\ state.hist[3] = 3 /\ state.hist[7] = 3

\* what analyze computes for one final state
PerReplica(s) ==
    [ histogram   |-> s.hist,
      mean_force  |-> [b \in DOMAIN s.Fsum |-> Div(s.Fsum[b], Max(s.hist[b], 1))],
      free_energy |-> [x \in 0..(method.shape - 1) |-> evaluate(s.fun, x)],
      fun         |-> s.fun,
      fes_fn      |-> build_fes_fn(s.fun) ]

\* C11: for exactly one final state analyze returns each of histogram, mean_force,
\* free_energy, fun and the interpolation function unwrapped; for two or more it
\* returns, for each key, a sequence with one entry per replica in input order.
C11_FirstOrAll ==
    pc = "analyzed" =>
      IF Len(finals) = 1
      THEN /\ ana.histogram   = PerReplica(finals[1]).histogram
           /\ ana.mean_force  = PerReplica(finals[1]).mean_force
           /\ ana.free_energy = PerReplica(finals[1]).free_energy
           /\ ana.fun         = PerReplica(finals[1]).fun
           /\ ana.fes_fn      = PerReplica(finals[1]).fes_fn
      ELSE /\ ana.histogram   = [i \in 1..Len(finals) |-> PerReplica(finals[i]).histogram]
           /\ ana.mean_force  = [i \in 1..Len(finals) |-> PerReplica(finals[i]).mean_force]
           /\ ana.free_energy = [i \in 1..Len(finals) |-> PerReplica(finals[i]).free_energy]
           /\ ana.fun         = [i \in 1..Len(finals) |-> PerReplica(finals[i]).fun]
           /\ ana.fes_fn      = [i \in 1..Len(finals) |-> PerReplica(finals[i]).fes_fn]

C11_Witness ==
    /\ pc = "analyzed"
    /\ Len(finals) = 2
    /\ finals[1].hist # finals[2].hist
    /\ finals[1].Fsum # finals[2].Fsum

\* the fields of the state other than xi are those of a fresh state
FreshExceptXi(s) ==
    /\ s.bias = [i \in 1..Len(s.bias) |-> 0]
    /\ s.hist = Zeros(method.shape)
    /\ s.Fsum = Zeros(method.shape)
    /\ s.force = 0
    /\ s.Wp = 0
    /\ s.Wp_ = 0
    /\ s.fun = fit(Zeros(method.shape))
    /\ s.nstep = 1

\* C12 (as stated): the state returned by initialize() has all fields zero except
\* nstep = 1: xi, bias, hist, Fsum, force, Wp and Wp_ are zero and fun is the fit of
\* the all-zero force field.
C12_InitialStateAllZero == updates = 0 => (state.xi = 0 /\ FreshExceptXi(state))

\* C12 (amended): the state returned by initialize() has bias, hist, Fsum, force, Wp
\* and Wp_ zero, fun the fit of the all-zero force field and nstep = 1; xi is the
\* collective variable of the initial snapshot.
C12_InitialStateZeroExceptXi ==
    updates = 0 => (state.xi = cv(data)[1] /\ FreshExceptXi(state))

C12_Witness == updates = 0 /\ pc = "running" /\ state.xi # 0 /\ state.nstep = 1

C14_AverageIncludesCurrentSample ==
    [][ (IsUpdate /\ taken'.branch = "average")
        => state'.force =
             Div(getitem(state.Fsum, taken'.ind, method.shape) + taken'.dW + state.force,
                 Max(getitem(state.hist, taken'.ind, method.shape) + 1, method.N)) ]_vars

\* the projection computed in update j; the initial zero before the first update
LoggedWp(j) == IF j >= 1 THEN wp_log[j] ELSE 0

\* C15: Wp and Wp_ form a shift register of depth 2: after k updates Wp is the
\* projection of update k and Wp_ that of update k-1 (the older one is gone), and the
\* finite difference of update k is (1.5*Wp_k - 2*Wp_{k-1} + 0.5*Wp_{k-2}) / dt, the
\* missing entries of updates 1 and 2 being the initial zeros.
C15_ShiftRegister ==
    /\ Len(wp_log) = updates
    /\ state.Wp = LoggedWp(updates)
    /\ state.Wp_ = LoggedWp(updates - 1)
    /\ updates >= 1 =>
         taken.dW =
           Div((3 * LoggedWp(updates) - 4 * LoggedWp(updates - 1) + LoggedWp(updates - 2))
                 * method.dt.den,
               2 * method.dt.num)

C15_Witness ==
    /\ updates = 3
    /\ wp_log[1] # wp_log[2]
    /\ wp_log[2] # wp_log[3]
    /\ state.Wp_ = wp_log[2]

\* the binned mean force of a state, the denominator floored at 1
MeanField(s) == [b \in 0..(method.shape - 1) |-> Div(s.Fsum[b], Max(s.hist[b], 1))]

\* C16: on a gated refit step the new fun is fitted from the incoming state's
\* Fsum / max(hist, 1), the statistics before this update's own sample, and the fun
\* of this update is the one the interpolation branch evaluates in the same update.
C16_RefitFromIncomingStatistics ==
    [][ IsUpdate =>
          /\ taken'.fitted => state'.fun = fit(MeanField(state))
          /\ taken'.branch = "interpolate" =>
               state'.force = get_grad(method, state'.fun, state'.xi) ]_vars

C16_Witness ==
    /\ taken.fitted
    /\ taken.branch = "interpolate"
    /\ state.fun # fit(MeanField(state))
    /\ state.fun # fit(Zeros(method.shape))
    /\ state.force # 0
    /\ \E b \in DOMAIN state.hist : state.hist[b] = 0

\* C17: an update leaves hist and Fsum unchanged at every bin other than its resolved
\* bin index; no bin's hist ever decreases, and a bin's Fsum changes only in an update
\* that also increments that bin's hist.
C17_OnlyResolvedBinChanges ==
    [][ \A b \in 0..(method.shape - 1) :
          /\ state'.hist[b] >= state.hist[b]
          /\ state'.Fsum[b] # state.Fsum[b] => state'.hist[b] = state.hist[b] + 1
          /\ (IsUpdate /\ b # taken'.ind) =>
               (state'.hist[b] = state.hist[b] /\ state'.Fsum[b] = state.Fsum[b]) ]_vars

C17_Witness ==
    /\ updates = 3
    /\ InGrid(taken.ind)
    /\ \A b \in DOMAIN state.hist : state.hist[b] > 0 /\ state.Fsum[b] # 0
    /\ visits < updates

\* C18: once nstep > fit_threshold, every window of fit_freq consecutive updates holds
\* at least one refit (with fit_freq = 1: every update past the threshold refits).
\* The updates done so far had the incoming steps 1 .. updates.
C18_RefitInEveryWindow ==
    \A a \in 1..updates :
      (a > method.fit_threshold /\ a + method.fit_freq - 1 <= updates)
        => \E n \in a..(a + method.fit_freq - 1) : n \in refits

\* C19: whenever the estimator took the interpolation branch, the coefficients it
\* evaluated came from at least one gated refit (in that update or an earlier one),
\* never from the initial fit of the all-zero Fsum.
C19_InterpolationUsesRefittedFun ==
    taken.branch = "interpolate" => refits # {}

====
